---- MODULE Spec2Model ----
(***************************************************************************)
(* Model of the 90/180 compliance engine of src/src/main.tsx.              *)
(*                                                                         *)
(* A date string "yyyy-MM-dd" is the tuple <<y, m, d>> of its three        *)
(* zero-padded fields; a display string "dd/MM/yyyy" is <<d, m, y>>.  A    *)
(* JavaScript Date at local midnight is the number of its calendar day     *)
(* (day 0 = 1970-01-01, proleptic Gregorian, as ECMAScript counts days).   *)
(***************************************************************************)
EXTENDS Integers, Sequences, FiniteSets, TLC

VARIABLES trips, op, arg1, arg2, ret, profiles, activeProfileId, isLoaded,
          storage, rangeMode, rangeStart

vars == <<trips, op, arg1, arg2, ret, profiles, activeProfileId, isLoaded,
          storage, rangeMode, rangeStart>>

\* JavaScript's null.
NULL == <<>>

----------------------------------------------------------------------------
(* Dates: the JavaScript Date constructor and date-fns                     *)

\* new Date(y, m - 1, d): the day number of the calendar date y-m-d.
DateOf(y, m, d) ==
  LET yy  == IF m <= 2 THEN y - 1 ELSE y
      era == yy \div 400
      yoe == yy - era * 400
      mp  == IF m > 2 THEN m - 3 ELSE m + 9
      doy == (153 * mp + 2) \div 5 + d - 1
      doe == yoe * 365 + yoe \div 4 - yoe \div 100 + doy
  IN  era * 146097 + doe - 719468

\* getFullYear / getMonth + 1 / getDate of a Date, as <<y, m, d>>.
FieldsOf(date) ==
  LET z   == date + 719468
      era == z \div 146097
      doe == z - era * 146097
      yoe == (doe - doe \div 1460 + doe \div 36524 - doe \div 146096) \div 365
      doy == doe - (365 * yoe + yoe \div 4 - yoe \div 100)
      mp  == (5 * doy + 2) \div 153
      d   == doy - (153 * mp + 2) \div 5 + 1
      m   == IF mp < 10 THEN mp + 3 ELSE mp - 9
      y   == yoe + era * 400 + (IF m <= 2 THEN 1 ELSE 0)
  IN  <<y, m, d>>

parseISO(dateStr) == DateOf(dateStr[1], dateStr[2], dateStr[3])

addDays(date, amount) == date + amount

subDaysPolyfill(date, amount) == addDays(date, -amount)

isBefore(a, b) == a < b

isAfter(a, b) == a > b

differenceInCalendarDays(a, b) == a - b

\* format(date, 'yyyy-MM-dd')
formatISO(date) == FieldsOf(date)

\* format(date, DISPLAY_DATE_FORMAT), DISPLAY_DATE_FORMAT = 'dd/MM/yyyy'
\* startOfMonth(date): the first day of the month of date.
startOfMonth(date) ==
  LET f == FieldsOf(date) IN DateOf(f[1], f[2], 1)

\* addMonths(date, amount): the same day of the month amount months later,
\* or the last day of that month if it is shorter.
addMonths(date, amount) ==
  LET f         == FieldsOf(date)
      months    == f[1] * 12 + (f[2] - 1) + amount
      y         == months \div 12
      m         == (months % 12) + 1
      following == IF m = 12 THEN DateOf(y + 1, 1, 1) ELSE DateOf(y, m + 1, 1)
      lastDay   == following - DateOf(y, m, 1)
  IN  DateOf(y, m, IF f[3] > lastDay THEN lastDay ELSE f[3])

\* endOfMonth(date): the last day of the month of date (its last instant).
endOfMonth(date) == addMonths(startOfMonth(date), 1) - 1

\* isSameMonth(a, b): the same month of the same year.
isSameMonth(a, b) ==
  FieldsOf(a)[1] = FieldsOf(b)[1] /\ FieldsOf(a)[2] = FieldsOf(b)[2]

\* eachDayOfInterval({start, end}): the days from start to end, ascending.
eachDayOfInterval(start, end) == [i \in 1..(end - start + 1) |-> start + i - 1]

formatDisplay(date) ==
  LET f == FieldsOf(date) IN <<f[3], f[2], f[1]>>

\* a.localeCompare(b) on two "yyyy-MM-dd" strings: field by field, left to right.
localeCompare(a, b) ==
  IF a[1] # b[1] THEN (IF a[1] < b[1] THEN -1 ELSE 1)
  ELSE IF a[2] # b[2] THEN (IF a[2] < b[2] THEN -1 ELSE 1)
  ELSE IF a[3] # b[3] THEN (IF a[3] < b[3] THEN -1 ELSE 1)
  ELSE 0

----------------------------------------------------------------------------
(* normalizeTrips                                                          *)

RECURSIVE InsertByEntry(_, _)
\* Array.prototype.sort is stable: t goes after every element that does not
\* compare greater than it.
InsertByEntry(sorted, t) ==
  IF sorted = <<>> THEN <<t>>
  ELSE IF localeCompare(sorted[Len(sorted)].entryDate, t.entryDate) <= 0
       THEN Append(sorted, t)
       ELSE Append(InsertByEntry(SubSeq(sorted, 1, Len(sorted) - 1), t),
                   sorted[Len(sorted)])

RECURSIVE SortByEntry(_)
\* [...trips].sort((a, b) => a.entryDate.localeCompare(b.entryDate))
SortByEntry(ts) ==
  IF ts = <<>> THEN <<>>
  ELSE InsertByEntry(SortByEntry(SubSeq(ts, 1, Len(ts) - 1)), ts[Len(ts)])

MergeTestOverlapOnly(nextStart, adjacentDate) ==
  isBefore(nextStart, adjacentDate - 1) \/ nextStart = adjacentDate - 1

\* The merge test of the loop body: overlap or adjacency.
MergeTest(nextStart, adjacentDate) ==
  isBefore(nextStart, adjacentDate) \/ nextStart = adjacentDate

MaxExitTakesNext(next, current, currentEnd) == next.exitDate

\* The exit date of the merged trip.
MaxExit(next, current, currentEnd) ==
  IF isAfter(parseISO(next.exitDate), currentEnd) THEN next.exitDate ELSE current.exitDate

PushLastMissing(normalized, current) == normalized

\* normalized.push(current) after the loop.
PushLast(normalized, current) == Append(normalized, current)

RECURSIVE NormalizeLoop(_, _, _, _)
\* The for loop from index i on (0-based, as in the source) and the push
\* that follows it.
NormalizeLoop(sorted, i, current, normalized) ==
  IF ~(i < Len(sorted)) THEN PushLast(normalized, current)
  ELSE LET next         == sorted[i + 1]
           currentEnd   == parseISO(current.exitDate)
           nextStart    == parseISO(next.entryDate)
           adjacentDate == addDays(currentEnd, 1)
       IN  IF MergeTest(nextStart, adjacentDate)
           THEN NormalizeLoop(sorted, i + 1,
                              [current EXCEPT !.exitDate = MaxExit(next, current, currentEnd)],
                              normalized)
           ELSE NormalizeLoop(sorted, i + 1, next, Append(normalized, current))

normalizeTrips(ts) ==
  IF Len(ts) = 0 THEN <<>>
  ELSE LET sorted == SortByEntry(ts)
       IN  NormalizeLoop(sorted, 1, sorted[1], <<>>)

----------------------------------------------------------------------------
(* calculateUsedDaysWithinWindow                                           *)

WindowStartTooEarly(refDateObj) == subDaysPolyfill(refDateObj, 180)

\* windowStart = subDaysPolyfill(refDateObj, 179)
WindowStartOf(refDateObj) == subDaysPolyfill(refDateObj, 179)

OverlapEndUnclipped(tripEnd, refDateObj) == tripEnd

OverlapEnd(tripEnd, refDateObj) ==
  IF isAfter(tripEnd, refDateObj) THEN refDateObj ELSE tripEnd

OverlapStart(tripStart, windowStart) ==
  IF isBefore(tripStart, windowStart) THEN windowStart ELSE tripStart

RECURSIVE UsedLoop(_, _, _, _, _)
\* for (const trip of trips), from the k-th trip on.
UsedLoop(ts, k, windowStart, refDateObj, daysUsed) ==
  IF k > Len(ts) THEN daysUsed
  ELSE LET tripStart    == parseISO(ts[k].entryDate)
           tripEnd      == parseISO(ts[k].exitDate)
           overlapStart == OverlapStart(tripStart, windowStart)
           overlapEnd   == OverlapEnd(tripEnd, refDateObj)
       IN  UsedLoop(ts, k + 1, windowStart, refDateObj,
                    IF ~isAfter(overlapStart, overlapEnd)
                    THEN daysUsed + differenceInCalendarDays(overlapEnd, overlapStart) + 1
                    ELSE daysUsed)

calculateUsedDaysWithinWindow(ts, referenceDate) ==
  LET refDateObj  == parseISO(referenceDate)
      windowStart == WindowStartOf(refDateObj)
  IN  UsedLoop(ts, 1, windowStart, refDateObj, 0)

----------------------------------------------------------------------------
(* canStayForPeriod                                                        *)

OverLimitAtLimit(used) == used >= 90

OverLimitTooLate(used) == used > 91

\* if (used > 90)
OverLimit(used) == used > 90

CombinedTripsUnmerged(existingTrips, tempTrip) == Append(existingTrips, tempTrip)

\* combinedTrips = normalizeTrips([...existingTrips, tempTrip])
CombinedTrips(existingTrips, tempTrip) ==
  normalizeTrips(Append(existingTrips, tempTrip))

canStayForPeriod(existingTrips, plannedEntry, plannedExit) ==
  LET tempTrip      == [id |-> "temp", entryDate |-> plannedEntry, exitDate |-> plannedExit]
      combinedTrips == CombinedTrips(existingTrips, tempTrip)
      start         == parseISO(plannedEntry)
      end           == parseISO(plannedExit)
      days          == differenceInCalendarDays(end, start) + 1
      dateStr(i)    == formatISO(addDays(start, i))
      used(i)       == calculateUsedDaysWithinWindow(combinedTrips, dateStr(i))
  IN  \* The for loop returns at the first index i whose day is over the limit.
      IF \E i \in 0..(days - 1) : OverLimit(used(i))
      THEN LET i == CHOOSE k \in 0..(days - 1) :
                      /\ OverLimit(used(k))
                      /\ \A j \in 0..(k - 1) : ~OverLimit(used(j))
           IN  [isAllowed     |-> FALSE,
                violationDate |-> formatDisplay(parseISO(dateStr(i))),
                usedOnExit    |-> used(i)]
      ELSE LET finalUsed == calculateUsedDaysWithinWindow(combinedTrips, plannedExit)
           IN  [isAllowed |-> TRUE, violationDate |-> NULL, usedOnExit |-> finalUsed]

----------------------------------------------------------------------------
(* getMaxSafeStayFromDate                                                  *)

UntilDateOffByOne(plannedEntry, safeLength) ==
  formatDisplay(addDays(parseISO(plannedEntry), safeLength))

\* untilDate: format(addDays(parseISO(plannedEntry), safeLength - 1), DISPLAY_DATE_FORMAT)
UntilDate(plannedEntry, safeLength) ==
  formatDisplay(addDays(parseISO(plannedEntry), safeLength - 1))

CurrentExitOffByOne(plannedEntry, i) == addDays(parseISO(plannedEntry), i)

\* currentExit = addDays(parseISO(plannedEntry), i - 1)
CurrentExit(plannedEntry, i) == addDays(parseISO(plannedEntry), i - 1)

SafeLengthAtFailure(i) == i

\* safeLength when the loop breaks at i: the value set by the last allowed
\* check, i - 1 (0 when the first check fails).
SafeLengthBeforeFailure(i) == i - 1

getMaxSafeStayFromDate(ts, plannedEntry) ==
  LET currentExitStr(i) == formatISO(CurrentExit(plannedEntry, i))
      check(i)          == canStayForPeriod(ts, plannedEntry, currentExitStr(i))
      \* for (let i = 1; i <= 90; i++): without a break safeLength is the
      \* last i; the loop breaks at the first i whose check is not allowed,
      \* with safeLength = i - 1.
      safeLength ==
        IF \A i \in 1..90 : check(i).isAllowed THEN 90
        ELSE SafeLengthBeforeFailure(
               CHOOSE i \in 1..90 :
                 /\ ~check(i).isAllowed
                 /\ \A j \in 1..(i - 1) : check(j).isAllowed)
  IN  [maxDays |-> safeLength, untilDate |-> UntilDate(plannedEntry, safeLength)]

----------------------------------------------------------------------------
(* useSchengenStore: updateTripsFromSet, toggleDate, addTripRange          *)

\* const MAX_PROFILES = 20
MAX_PROFILES == 20

\* crypto.randomUUID(): the k-th identifier of the draw named by seed. Two
\* draws may differ, so the seed is chosen anew by every caller.
randomUUID(seed, k) == <<seed, k>>

\* The dateSet built from the trips of a profile: for every trip the strings
\* format(addDays(start, i)) for i = 0..differenceInCalendarDays(end, start);
\* a trip whose exit is before its entry adds nothing.
ExpandTrips(ts) ==
  UNION {LET start == parseISO(ts[k].entryDate)
             end   == parseISO(ts[k].exitDate)
             days  == differenceInCalendarDays(end, start)
         IN  {formatISO(addDays(start, i)) : i \in 0..days}
         : k \in 1..Len(ts)}

\* Array.from(dateSet).sort(): ascending in string order, which for
\* yyyy-MM-dd strings is the order of the fields year, month, day.
RECURSIVE SortDates(_)
SortDates(dateSet) ==
  IF dateSet = {} THEN <<>>
  ELSE LET first == CHOOSE d \in dateSet :
                      \A e \in dateSet : localeCompare(d, e) <= 0
       IN  <<first>> \o SortDates(dateSet \ {first})

IsNextDayNever(currDate, prevDate) == FALSE

IsNextDayOrGapOfOne(currDate, prevDate) == differenceInCalendarDays(currDate, prevDate) <= 2

\* differenceInCalendarDays(currDate, prevDate) === 1
IsNextDay(currDate, prevDate) == differenceInCalendarDays(currDate, prevDate) = 1

\* The for loop of updateTripsFromSet from index i (1-based) and the push
\* after it.
RECURSIVE CollapseLoop(_, _, _, _, _, _)
CollapseLoop(sortedDates, i, tripStart, tripPrev, newTrips, seed) ==
  LET pushed == Append(newTrips,
                  [id        |-> randomUUID(seed, Len(newTrips) + 1),
                   entryDate |-> tripStart,
                   exitDate  |-> tripPrev])
  IN  IF i > Len(sortedDates) THEN pushed
      ELSE LET curr == sortedDates[i]
           IN  IF IsNextDay(parseISO(curr), parseISO(tripPrev))
               THEN CollapseLoop(sortedDates, i + 1, tripStart, curr, newTrips, seed)
               ELSE CollapseLoop(sortedDates, i + 1, curr, curr, pushed, seed)

updateTripsFromSet(profile, dateSet, seed) ==
  LET sortedDates == SortDates(dateSet)
  IN  IF Len(sortedDates) = 0 THEN [profile EXCEPT !.trips = <<>>]
      ELSE [profile EXCEPT !.trips =
              CollapseLoop(sortedDates, 2, sortedDates[1], sortedDates[1], <<>>, seed)]

FlipAddOnly(dateSet, dateStr) == dateSet \cup {dateStr}

\* if (dateSet.has(dateStr)) dateSet.delete(dateStr); else dateSet.add(dateStr);
Flip(dateSet, dateStr) ==
  IF dateStr \in dateSet THEN dateSet \ {dateStr} ELSE dateSet \cup {dateStr}

IsOtherProfileNever(p, activeId) == FALSE

\* p.id !== activeProfileId
IsOtherProfile(p, activeId) == p.id # activeId

\* The value toggleDate passes to setProfiles, applied to prev.
toggleDate(prev, activeId, dateStr, seed) ==
  [k \in 1..Len(prev) |->
     IF IsOtherProfile(prev[k], activeId) THEN prev[k]
     ELSE updateTripsFromSet(prev[k], Flip(ExpandTrips(prev[k].trips), dateStr), seed)]

RangeAsGiven(startDateStr, endDateStr) ==
  {formatISO(d) : d \in parseISO(startDateStr)..parseISO(endDateStr)}

\* eachDayOfInterval({start, end}) formatted, with start the earlier and end
\* the later of the two dates.
RangeDays(startDateStr, endDateStr) ==
  LET d1    == parseISO(startDateStr)
      d2    == parseISO(endDateStr)
      start == IF isBefore(d1, d2) THEN d1 ELSE d2
      end   == IF isAfter(d1, d2) THEN d1 ELSE d2
  IN  {formatISO(d) : d \in start..end}

\* The value addTripRange passes to setProfiles, applied to prev.
addTripRange(prev, activeId, startDateStr, endDateStr, seed) ==
  [k \in 1..Len(prev) |->
     IF IsOtherProfile(prev[k], activeId) THEN prev[k]
     ELSE updateTripsFromSet(prev[k],
            ExpandTrips(prev[k].trips) \cup RangeDays(startDateStr, endDateStr), seed)]

----------------------------------------------------------------------------
(* WindowBreakdown                                                         *)

\* while (isBefore(current, end) || isSameMonth(current, end)) push current,
\* current = addMonths(current, 1)
RECURSIVE MonthsLoop(_, _, _)
MonthsLoop(current, end, months) ==
  IF isBefore(current, end) \/ isSameMonth(current, end)
  THEN MonthsLoop(addMonths(current, 1), end, Append(months, current))
  ELSE months

eachMonthOfIntervalPolyfill(start, end) == MonthsLoop(startOfMonth(start), end, <<>>)

\* trips.some(t => !isBefore(d, tStart) && !isAfter(d, tEnd))
IsPresent(ts, d) ==
  \E k \in 1..Len(ts) :
    /\ ~isBefore(d, parseISO(ts[k].entryDate))
    /\ ~isAfter(d, parseISO(ts[k].exitDate))

SearchStartUnclipped(mStart, windowStart) == mStart

\* searchStart = isBefore(mStart, windowStart) ? windowStart : mStart
SearchStart(mStart, windowStart) ==
  IF isBefore(mStart, windowStart) THEN windowStart ELSE mStart

\* searchEnd = isAfter(mEnd, refDateObj) ? refDateObj : mEnd, as a day: mEnd
\* is the last instant of its day and refDateObj the first of its own, so
\* mEnd is after refDateObj also when both are the same day.
SearchEnd(mEnd, refDateObj) ==
  IF mEnd >= refDateObj THEN refDateObj ELSE mEnd

\* monthStats: for every month of the window the number of present days in
\* the part of the month that lies in the window.
MonthStats(ts, monthsInWindow, windowStart, refDateObj) ==
  [k \in 1..Len(monthsInWindow) |->
     LET month       == monthsInWindow[k]
         mStart      == startOfMonth(month)
         mEnd        == endOfMonth(month)
         searchStart == SearchStart(mStart, windowStart)
         searchEnd   == SearchEnd(mEnd, refDateObj)
         present(d)  == IsPresent(ts, d)
         count       == IF ~isAfter(searchStart, searchEnd)
                        THEN Len(SelectSeq(eachDayOfInterval(searchStart, searchEnd), present))
                        ELSE 0
     IN  [month |-> month, count |-> count]]

IsViolationAtLimit(used) == used >= 90

\* if (used > 90) violations.push(dStr)
IsViolation(used) == used > 90

\* Only the reference date is examined.
ViolationDaysOfRefDate(ts, windowStart, refDateObj) ==
  IF IsPresent(ts, refDateObj)
       /\ IsViolation(calculateUsedDaysWithinWindow(ts, formatISO(refDateObj)))
  THEN <<formatISO(refDateObj)>>
  ELSE <<>>

\* violationDays: the present days of the window whose own 180-day usage is
\* over the limit, as yyyy-MM-dd strings.
ViolationDays(ts, windowStart, refDateObj) ==
  LET checkDays           == eachDayOfInterval(windowStart, refDateObj)
      present(d)          == IsPresent(ts, d)
      presentDaysInWindow == SelectSeq(checkDays, present)
      violates(d)         == IsViolation(calculateUsedDaysWithinWindow(ts, formatISO(d)))
      violating           == SelectSeq(presentDaysInWindow, violates)
  IN  [i \in 1..Len(violating) |-> formatISO(violating[i])]

\* What WindowBreakdown computes from its props before it renders.
WindowBreakdown(ts, referenceDate) ==
  LET refDateObj     == parseISO(referenceDate)
      windowStart    == subDaysPolyfill(refDateObj, 179)
      monthsInWindow == eachMonthOfIntervalPolyfill(windowStart, refDateObj)
  IN  [monthStats    |-> MonthStats(ts, monthsInWindow, windowStart, refDateObj),
       violationDays |-> ViolationDays(ts, windowStart, refDateObj)]

----------------------------------------------------------------------------
(* DashboardScreen: the figures shown for the reference date               *)

RemainingTooMany(usedDays) == IF 90 - usedDays >= 0 THEN 90 - usedDays + 1 ELSE 0

\* remaining = Math.max(0, 90 - usedDays)
Remaining(usedDays) == IF 90 - usedDays > 0 THEN 90 - usedDays ELSE 0

\* planningStartStr = format(addDays(parseISO(refDate), 1), 'yyyy-MM-dd')
PlanningStartStr(refDate) == formatISO(addDays(parseISO(refDate), 1))

\* usedDays, remaining and maxStay as DashboardScreen computes them on render.
DashboardStats(ts, refDate) ==
  LET usedDays == calculateUsedDaysWithinWindow(ts, refDate)
  IN  [usedDays  |-> usedDays,
       remaining |-> Remaining(usedDays),
       maxStay   |-> getMaxSafeStayFromDate(ts, PlanningStartStr(refDate))]

----------------------------------------------------------------------------
(* src/app/page.tsx: the second implementation of the max-stay search      *)

\* selectedDates, the presence days kept one Date per day, for the days that
\* a trip list covers.
SelectedDatesOf(ts) ==
  UNION {parseISO(ts[k].entryDate)..parseISO(ts[k].exitDate) : k \in 1..Len(ts)}

\* Math.max(0, n)
MaxWithZero(n) == IF n > 0 THEN n ELSE 0

\* calculateFutureStayInfo(futureDate): the selected dates from 180 days
\* before futureDate up to the day before it are counted.
calculateFutureStayInfo(selectedDates, futureDate) ==
  LET windowStart      == futureDate - 180
      daysUsedInWindow == Cardinality({date \in selectedDates :
                                         date >= windowStart /\ date < futureDate})
  IN  [daysUsedInWindow |-> daysUsedInWindow,
       availableDays    |-> MaxWithZero(90 - daysUsedInWindow)]

\* getMaxContinuousStay(startDate): maxDays counts the days from startDate,
\* at most 90, up to the first day whose availableDays is 0.
getMaxContinuousStay(selectedDates, startDate) ==
  LET available(i) ==
        calculateFutureStayInfo(selectedDates, startDate + i).availableDays > 0
  IN  IF \A i \in 0..89 : available(i) THEN 90
      ELSE CHOOSE i \in 0..89 :
             /\ ~available(i)
             /\ \A j \in 0..(i - 1) : available(j)

----------------------------------------------------------------------------
(* useSchengenStore: localStorage, profiles                                *)

\* localStorage.getItem(STORAGE_KEY) when nothing is stored: null.
NoItem == [kind |-> "null"]

\* A stored text that JSON.parse rejects.
UnparsableItem == [kind |-> "text"]

\* JSON.stringify(value): the text of a value made of objects, arrays and
\* strings; JSON.parse gives the value back.
JSONstringify(value) == [kind |-> "json", value |-> value]

SaveEffectUnguarded(loaded, ps, activeId, stored) ==
  JSONstringify([profiles |-> ps, activeProfileId |-> activeId])

\* The save effect: if (isLoaded) localStorage.setItem(STORAGE_KEY,
\* JSON.stringify({ profiles, activeProfileId })). The value is the stored
\* item afterwards.
SaveEffect(loaded, ps, activeId, stored) ==
  IF loaded THEN JSONstringify([profiles |-> ps, activeProfileId |-> activeId])
  ELSE stored

\* The load effect: the profiles and activeProfileId that it sets; the state
\* stays as it is if nothing is stored or JSON.parse throws.
LoadEffect(stored, ps, activeId) ==
  IF stored.kind = "json"
  THEN [profiles |-> stored.value.profiles, activeProfileId |-> stored.value.activeProfileId]
  ELSE [profiles |-> ps, activeProfileId |-> activeId]

AtProfileLimitLate(n) == n > MAX_PROFILES

\* profiles.length >= MAX_PROFILES
AtProfileLimit(n) == n >= MAX_PROFILES

\* addProfile(name) with newId the value of crypto.randomUUID().
addProfile(ps, activeId, name, newId) ==
  IF AtProfileLimit(Len(ps)) THEN [profiles |-> ps, activeProfileId |-> activeId]
  ELSE [profiles        |-> Append(ps, [id |-> newId, name |-> name, trips |-> <<>>]),
        activeProfileId |-> newId]

ActiveAfterRemoveKept(newProfiles, activeId, id) == activeId

\* if (activeProfileId === id) setActiveProfileId(newProfiles[0].id)
ActiveAfterRemove(newProfiles, activeId, id) ==
  IF activeId = id THEN newProfiles[1].id ELSE activeId

\* removeProfile(id)
removeProfile(ps, activeId, id) ==
  IF Len(ps) <= 1 THEN [profiles |-> ps, activeProfileId |-> activeId]
  ELSE LET keep(p)     == p.id # id
           newProfiles == SelectSeq(ps, keep)
       IN  [profiles        |-> newProfiles,
            activeProfileId |-> ActiveAfterRemove(newProfiles, activeId, id)]

----------------------------------------------------------------------------
(* Inputs                                                                  *)

\* The trips [id, entryDate, exitDate] of a list of <<entryDate, exitDate>> pairs.
MkTrips(pairs) ==
  [k \in 1..Len(pairs) |->
     [id |-> ToString(k), entryDate |-> pairs[k][1], exitDate |-> pairs[k][2]]]

\* Every list of at most n elements of S, in every order, repeats included.
ListsUpTo(S, n) == UNION {[1..k -> S] : k \in 0..n}

\* The pairs over a set of dates that are trips: entryDate <= exitDate.
IntervalsOver(dates) ==
  {p \in dates \X dates : parseISO(p[1]) <= parseISO(p[2])}

MaxTripsNorm == 3

\* Two runs of consecutive days, across the turn of the year and a leap day.
NormDates ==
  {<<2023, 12, 30>>, <<2023, 12, 31>>, <<2024, 1, 1>>, <<2024, 1, 2>>,
   <<2024, 2, 29>>, <<2024, 3, 1>>}

MaxTripsUsage == 2

\* Days around both edges of the windows that end on the reference dates.
UsageDates ==
  {<<2023, 12, 31>>, <<2024, 1, 1>>, <<2024, 1, 2>>, <<2024, 3, 15>>,
   <<2024, 6, 27>>, <<2024, 6, 28>>, <<2024, 6, 29>>}

\* 2024-06-28 - 179 days = 2024-01-01.
RefDates == {<<2024, 3, 15>>, <<2024, 6, 28>>, <<2024, 6, 29>>}

MaxTripsStay == 2

\* Histories: short and long past trips, an overstay, a trip inside the
\* planned stay and a future trip.
StayIntervals ==
  {<<(<<2024, 1, 1>>), (<<2024, 2, 29>>)>>,
   <<(<<2024, 4, 2>>), (<<2024, 6, 30>>)>>,
   <<(<<2024, 5, 1>>), (<<2024, 6, 15>>)>>,
   <<(<<2023, 11, 1>>), (<<2024, 3, 31>>)>>,
   <<(<<2024, 7, 15>>), (<<2024, 7, 20>>)>>,
   <<(<<2024, 8, 1>>), (<<2024, 9, 30>>)>>}

EntryDates == {<<2024, 3, 1>>, <<2024, 7, 1>>}

\* Lengths in days of the planned stays.
StayLengths == {1, 2, 31, 45, 61, 90, 91, 96}

MaxTripsPlan == 2

PlanIntervals ==
  {<<(<<2024, 1, 1>>), (<<2024, 2, 29>>)>>,
   <<(<<2024, 4, 2>>), (<<2024, 6, 30>>)>>,
   <<(<<2024, 5, 1>>), (<<2024, 6, 15>>)>>,
   <<(<<2024, 8, 1>>), (<<2024, 9, 30>>)>>}

PlanEntryDates == {<<2024, 3, 1>>, <<2024, 7, 1>>}

\* The longest planned stay tried against an empty history.
MaxStayLen == 95

EmptyEntryDates == {<<2023, 3, 1>>, <<2023, 12, 15>>, <<2024, 1, 1>>, <<2024, 2, 29>>}

MaxTripsCollapse == 3

\* Trips of up to four days across the turn of the year and across a leap day.
CollapseIntervals ==
  IntervalsOver({<<2023, 12, 30>>, <<2023, 12, 31>>, <<2024, 1, 1>>, <<2024, 1, 2>>})
    \cup IntervalsOver({<<2024, 2, 28>>, <<2024, 2, 29>>, <<2024, 3, 1>>})

\* The draws of crypto.randomUUID that are told apart.
UuidSeeds == {"u1", "u2"}

\* The days of the calendar that are pressed: three days across a leap day
\* and the three days of 10 to 12 May 2024.
ToggleDates ==
  {<<2024, 2, 28>>, <<2024, 2, 29>>, <<2024, 3, 1>>,
   <<2024, 5, 10>>, <<2024, 5, 11>>, <<2024, 5, 12>>}

\* The two presses of a range selection, in either order, at most two days apart.
RangePresses ==
  {p \in ToggleDates \X ToggleDates :
     /\ parseISO(p[1]) - parseISO(p[2]) <= 2
     /\ parseISO(p[2]) - parseISO(p[1]) <= 2}

MaxTripsBreakdown == 2

MaxTripsRaw == 2

\* Pairs of dates in either order: trips and candidate ranges as a caller
\* may pass them, exit before entry included.
RawDates == {<<2024, 1, 1>>, <<2024, 1, 10>>, <<2024, 3, 1>>}

RawIntervals == RawDates \X RawDates

MaxTripsPure == 2

\* How often one call is made with the same inputs.
MaxInvocations == 2

PureIntervals ==
  {<<(<<2023, 12, 30>>), (<<2023, 12, 31>>)>>,
   <<(<<2023, 12, 31>>), (<<2024, 1, 2>>)>>,
   <<(<<2024, 2, 28>>), (<<2024, 3, 1>>)>>}

PureDates == {<<2024, 1, 1>>, <<2024, 6, 27>>}

PureEntry == <<2024, 1, 1>>

MaxTripsSecond == 2

SecondEntryDates == {<<2024, 3, 1>>, <<2024, 7, 1>>, <<2024, 10, 1>>}

\* A reference date on which the traveller of StayIntervals is absent.
BreakdownRefDates == RefDates \cup {<<2024, 7, 5>>}

MaxTripsDashboard == 2

\* Reference dates before, inside and after the trips of StayIntervals.
DashboardRefDates ==
  {<<2024, 2, 29>>, <<2024, 3, 15>>, <<2024, 6, 28>>, <<2024, 6, 29>>, <<2024, 7, 5>>}

\* The values of crypto.randomUUID() that are told apart as profile ids:
\* enough of them to fill the list and to replace removed profiles.
MaxSpareUuids == 3

\* Profile ids are interchangeable, so a new profile gets the first value
\* after all the values in use; a value in use is never drawn.
FreshUuids(ps) ==
  LET inUse(k) == \E j \in 1..Len(ps) : ps[j].id = ToString(k)
  IN  {ToString(k) : k \in {i \in 1..(MAX_PROFILES + MaxSpareUuids) :
                              /\ \A j \in i..(MAX_PROFILES + MaxSpareUuids) : ~inUse(j)
                              /\ i > 1 => inUse(i - 1)}}

ProfileNames == {"Trip"}

\* The days pressed while profiles come and go: two neighbours and one day
\* after a day of absence.
EditDates == {<<2024, 5, 10>>, <<2024, 5, 11>>, <<2024, 5, 13>>}

\* The two presses of the ranges added: the two neighbours from the later
\* to the earlier, and the single day.
EditPresses ==
  {<<(<<2024, 5, 11>>), (<<2024, 5, 10>>)>>,
   <<(<<2024, 5, 13>>), (<<2024, 5, 13>>)>>}

\* The ids of the trips play no part in these edits: one draw.
EditSeeds == {"u1"}

MaxProfilesEdit == 2

\* States that an earlier session saved: a trip of the only profile, and a
\* second profile that is active.
SavedStates ==
  LET trip == [id |-> randomUUID("u1", 1),
               entryDate |-> <<2024, 5, 10>>, exitDate |-> <<2024, 5, 11>>]
  IN  {[profiles        |-> <<[id |-> "default", name |-> "Me", trips |-> <<trip>>]>>,
        activeProfileId |-> "default"],
       [profiles        |-> <<[id |-> "default", name |-> "Me", trips |-> <<trip>>],
                              [id |-> "1", name |-> "Trip", trips |-> <<>>]>>,
        activeProfileId |-> "1"]}

\* The item under STORAGE_KEY when the page is opened.
StoredItems == {NoItem, UnparsableItem} \cup {JSONstringify(s) : s \in SavedStates}

\* The exit date of a stay of len days from plannedEntry.
ExitAfter(plannedEntry, len) == formatISO(addDays(parseISO(plannedEntry), len - 1))

----------------------------------------------------------------------------
(* Calls of the engine: one call per behaviour                             *)

\* useState: one profile 'default' named 'Me' without trips, and it is active.
\* The calls below start from the store as it is once the effects of the
\* first render have run on an empty localStorage: loaded, and saved once.
InitialProfiles == <<[id |-> "default", name |-> "Me", trips |-> <<>>]>>

InitWith(lists) ==
  /\ trips \in lists
  /\ op = "none"
  /\ arg1 = NULL
  /\ arg2 = NULL
  /\ ret = NULL
  /\ profiles = InitialProfiles
  /\ activeProfileId = "default"
  /\ isLoaded = TRUE
  /\ storage = JSONstringify([profiles |-> InitialProfiles, activeProfileId |-> "default"])
  /\ rangeMode = FALSE
  /\ rangeStart = NULL

CallNormalizeTrips ==
  /\ op = "none"
  /\ op' = "normalizeTrips"
  /\ ret' = normalizeTrips(trips)
  /\ UNCHANGED <<trips, arg1, arg2, profiles, activeProfileId, isLoaded, storage,
               rangeMode, rangeStart>>

CallCalculateUsedDays(referenceDate) ==
  /\ op = "none"
  /\ op' = "calculateUsedDaysWithinWindow"
  /\ arg1' = referenceDate
  /\ ret' = calculateUsedDaysWithinWindow(trips, referenceDate)
  /\ UNCHANGED <<trips, arg2, profiles, activeProfileId, isLoaded, storage,
               rangeMode, rangeStart>>

\* CalculatorScreen calls canStayForPeriod only if the exit is not before the entry.
CallCanStayForPeriod(plannedEntry, plannedExit) ==
  /\ op = "none"
  /\ ~isBefore(parseISO(plannedExit), parseISO(plannedEntry))
  /\ op' = "canStayForPeriod"
  /\ arg1' = plannedEntry
  /\ arg2' = plannedExit
  /\ ret' = canStayForPeriod(trips, plannedEntry, plannedExit)
  /\ UNCHANGED <<trips, profiles, activeProfileId, isLoaded, storage,
               rangeMode, rangeStart>>

CallGetMaxSafeStay(plannedEntry) ==
  /\ op = "none"
  /\ op' = "getMaxSafeStayFromDate"
  /\ arg1' = plannedEntry
  /\ ret' = getMaxSafeStayFromDate(trips, plannedEntry)
  /\ UNCHANGED <<trips, arg2, profiles, activeProfileId, isLoaded, storage,
               rangeMode, rangeStart>>

InitNormalize == InitWith({MkTrips(p) : p \in ListsUpTo(IntervalsOver(NormDates), MaxTripsNorm)})

NextNormalize == CallNormalizeTrips

SpecNormalize == InitNormalize /\ [][NextNormalize]_vars

InitUsage == InitWith({MkTrips(p) : p \in ListsUpTo(IntervalsOver(UsageDates), MaxTripsUsage)})

NextUsage == \E d \in RefDates : CallCalculateUsedDays(d)

SpecUsage == InitUsage /\ [][NextUsage]_vars

InitStay == InitWith({MkTrips(p) : p \in ListsUpTo(StayIntervals, MaxTripsStay)})

NextStay ==
  \E e \in EntryDates, len \in StayLengths : CallCanStayForPeriod(e, ExitAfter(e, len))

SpecStay == InitStay /\ [][NextStay]_vars

InitPlan == InitWith({MkTrips(p) : p \in ListsUpTo(PlanIntervals, MaxTripsPlan)})

NextPlan ==
  \/ \E e \in PlanEntryDates : CallGetMaxSafeStay(e)
  \/ \E e \in PlanEntryDates, len \in StayLengths : CallCanStayForPeriod(e, ExitAfter(e, len))

SpecPlan == InitPlan /\ [][NextPlan]_vars

InitEmpty == InitWith({<<>>})

NextEmpty ==
  \/ \E e \in EmptyEntryDates : CallGetMaxSafeStay(e)
  \/ \E e \in EmptyEntryDates, len \in 1..MaxStayLen : CallCanStayForPeriod(e, ExitAfter(e, len))

SpecEmpty == InitEmpty /\ [][NextEmpty]_vars

\* The outcome of a call: the three functions contain no throw statement and
\* call nothing that throws on a date string, so every call returns its value.
Returned(value) == [thrown |-> "none", value |-> value]

\* The exported functions called directly, without the guards of the screens.
RawNormalizeTrips ==
  /\ op = "none"
  /\ op' = "normalizeTrips"
  /\ ret' = Returned(normalizeTrips(trips))
  /\ UNCHANGED <<trips, arg1, arg2, profiles, activeProfileId, isLoaded, storage,
               rangeMode, rangeStart>>

RawCalculateUsedDays(referenceDate) ==
  /\ op = "none"
  /\ op' = "calculateUsedDaysWithinWindow"
  /\ arg1' = referenceDate
  /\ ret' = Returned(calculateUsedDaysWithinWindow(trips, referenceDate))
  /\ UNCHANGED <<trips, arg2, profiles, activeProfileId, isLoaded, storage,
               rangeMode, rangeStart>>

RawCanStayForPeriod(plannedEntry, plannedExit) ==
  /\ op = "none"
  /\ op' = "canStayForPeriod"
  /\ arg1' = plannedEntry
  /\ arg2' = plannedExit
  /\ ret' = Returned(canStayForPeriod(trips, plannedEntry, plannedExit))
  /\ UNCHANGED <<trips, profiles, activeProfileId, isLoaded, storage,
               rangeMode, rangeStart>>

InitRaw == InitWith({MkTrips(p) : p \in ListsUpTo(RawIntervals, MaxTripsRaw)})

NextRaw ==
  \/ RawNormalizeTrips
  \/ \E d \in RawDates : RawCalculateUsedDays(d)
  \/ \E p \in RawIntervals : RawCanStayForPeriod(p[1], p[2])

SpecRaw == InitRaw /\ [][NextRaw]_vars

\* updateTripsFromSet on the dateSet that toggleDate and addTripRange build
\* from the trips of a profile.
CallUpdateTripsFromSet(seed) ==
  /\ op = "none"
  /\ op' = "updateTripsFromSet"
  /\ ret' = updateTripsFromSet([id |-> "default", name |-> "Me", trips |-> trips],
                                ExpandTrips(trips), seed).trips
  /\ UNCHANGED <<trips, arg1, arg2, profiles, activeProfileId, isLoaded, storage,
               rangeMode, rangeStart>>

InitCollapse == InitWith({MkTrips(p) : p \in ListsUpTo(CollapseIntervals, MaxTripsCollapse)})

NextCollapse == \E seed \in UuidSeeds : CallUpdateTripsFromSet(seed)

SpecCollapse == InitCollapse /\ [][NextCollapse]_vars

CallWindowBreakdown(referenceDate) ==
  /\ op = "none"
  /\ op' = "WindowBreakdown"
  /\ arg1' = referenceDate
  /\ ret' = WindowBreakdown(trips, referenceDate)
  /\ UNCHANGED <<trips, arg2, profiles, activeProfileId, isLoaded, storage,
               rangeMode, rangeStart>>

InitBreakdown == InitWith({MkTrips(p) : p \in ListsUpTo(StayIntervals, MaxTripsBreakdown)})

NextBreakdown == \E d \in BreakdownRefDates : CallWindowBreakdown(d)

SpecBreakdown == InitBreakdown /\ [][NextBreakdown]_vars

\* handleFutureDateClick(date): the search runs if the date has days available.
CallGetMaxContinuousStay(date) ==
  /\ op = "none"
  /\ calculateFutureStayInfo(SelectedDatesOf(trips), parseISO(date)).availableDays > 0
  /\ op' = "getMaxContinuousStay"
  /\ arg1' = date
  /\ ret' = getMaxContinuousStay(SelectedDatesOf(trips), parseISO(date))
  /\ UNCHANGED <<trips, arg2, profiles, activeProfileId, isLoaded, storage,
               rangeMode, rangeStart>>

InitSecond == InitWith({MkTrips(p) : p \in ListsUpTo(StayIntervals, MaxTripsSecond)})

NextSecond == \E e \in SecondEntryDates : CallGetMaxContinuousStay(e)

SpecSecond == InitSecond /\ [][NextSecond]_vars

\* A render of DashboardScreen with the trips of the active profile.
RenderDashboard(refDate) ==
  /\ op = "none"
  /\ op' = "DashboardScreen"
  /\ arg1' = refDate
  /\ ret' = DashboardStats(trips, refDate)
  /\ UNCHANGED <<trips, arg2, profiles, activeProfileId, isLoaded, storage,
               rangeMode, rangeStart>>

\* The stored trip lists are sorted and merged.
InitDashboard ==
  InitWith({ts \in {MkTrips(p) : p \in ListsUpTo(StayIntervals, MaxTripsDashboard)} :
              /\ \A k \in 1..Len(ts) : parseISO(ts[k].entryDate) <= parseISO(ts[k].exitDate)
              /\ \A k \in 1..(Len(ts) - 1) :
                   parseISO(ts[k + 1].entryDate) - parseISO(ts[k].exitDate) >= 2})

NextDashboard == \E d \in DashboardRefDates : RenderDashboard(d)

SpecDashboard == InitDashboard /\ [][NextDashboard]_vars

----------------------------------------------------------------------------
(* Repeated calls: ret is the list of the values returned so far           *)

InputSortedInPlace(ts) == SortByEntry(ts)

\* The caller's array after normalizeTrips: the function sorts the copy
\* [...trips] and builds merged trips as new objects, so the array is as before.
InputAfterSort(ts) == ts

\* The first call, or one more call with the same arguments.
Invocable(name, a1, a2) ==
  /\ Len(ret) < MaxInvocations
  /\ \/ op = "none"
     \/ op = name /\ arg1 = a1 /\ arg2 = a2

InvokeNormalizeTrips ==
  /\ Invocable("normalizeTrips", NULL, NULL)
  /\ op' = "normalizeTrips"
  /\ ret' = Append(ret, normalizeTrips(trips))
  /\ trips' = InputAfterSort(trips)
  /\ UNCHANGED <<arg1, arg2, profiles, activeProfileId, isLoaded, storage,
               rangeMode, rangeStart>>

InvokeCalculateUsedDays(referenceDate) ==
  /\ Invocable("calculateUsedDaysWithinWindow", referenceDate, NULL)
  /\ op' = "calculateUsedDaysWithinWindow"
  /\ arg1' = referenceDate
  /\ ret' = Append(ret, calculateUsedDaysWithinWindow(trips, referenceDate))
  /\ UNCHANGED <<trips, arg2, profiles, activeProfileId, isLoaded, storage,
               rangeMode, rangeStart>>

InvokeCanStayForPeriod(plannedEntry, plannedExit) ==
  /\ Invocable("canStayForPeriod", plannedEntry, plannedExit)
  /\ op' = "canStayForPeriod"
  /\ arg1' = plannedEntry
  /\ arg2' = plannedExit
  /\ ret' = Append(ret, canStayForPeriod(trips, plannedEntry, plannedExit))
  /\ UNCHANGED <<trips, profiles, activeProfileId, isLoaded, storage,
               rangeMode, rangeStart>>

InvokeGetMaxSafeStay(plannedEntry) ==
  /\ Invocable("getMaxSafeStayFromDate", plannedEntry, NULL)
  /\ op' = "getMaxSafeStayFromDate"
  /\ arg1' = plannedEntry
  /\ ret' = Append(ret, getMaxSafeStayFromDate(trips, plannedEntry))
  /\ UNCHANGED <<trips, arg2, profiles, activeProfileId, isLoaded, storage,
               rangeMode, rangeStart>>

\* Every call of updateTripsFromSet draws its identifiers anew.
InvokeUpdateTripsFromSet(seed) ==
  /\ Invocable("updateTripsFromSet", NULL, NULL)
  /\ op' = "updateTripsFromSet"
  /\ ret' = Append(ret,
               updateTripsFromSet([id |-> "default", name |-> "Me", trips |-> trips],
                                  ExpandTrips(trips), seed).trips)
  /\ UNCHANGED <<trips, arg1, arg2, profiles, activeProfileId, isLoaded, storage,
               rangeMode, rangeStart>>

InitPure == InitWith({MkTrips(p) : p \in ListsUpTo(PureIntervals, MaxTripsPure)})

NextPure ==
  \/ InvokeNormalizeTrips
  \/ \E d \in PureDates : InvokeCalculateUsedDays(d)
  \/ \E len \in {2, 91} : InvokeCanStayForPeriod(PureEntry, ExitAfter(PureEntry, len))
  \/ InvokeGetMaxSafeStay(PureEntry)
  \/ \E seed \in UuidSeeds : InvokeUpdateTripsFromSet(seed)

SpecPure == InitPure /\ [][NextPure]_vars

----------------------------------------------------------------------------
(* The store: presses on the calendar of the active profile                *)

\* useSchengenStore: activeProfile
activeProfile ==
  IF \E k \in 1..Len(profiles) : profiles[k].id = activeProfileId
  THEN profiles[CHOOSE k \in 1..Len(profiles) :
                  /\ profiles[k].id = activeProfileId
                  /\ \A j \in 1..(k - 1) : profiles[j].id # activeProfileId]
  ELSE profiles[1]

\* In the store's actions ret keeps prev, the profiles that the updater
\* passed to setProfiles was applied to.
ToggleDate(dateStr, seed) ==
  /\ op' = "toggleDate"
  /\ arg1' = dateStr
  /\ arg2' = NULL
  /\ ret' = profiles
  /\ profiles' = toggleDate(profiles, activeProfileId, dateStr, seed)
  /\ storage' = SaveEffect(isLoaded, profiles', activeProfileId, storage)
  /\ UNCHANGED <<trips, activeProfileId, isLoaded, rangeMode, rangeStart>>

AddTripRange(startDateStr, endDateStr, seed) ==
  /\ op' = "addTripRange"
  /\ arg1' = startDateStr
  /\ arg2' = endDateStr
  /\ ret' = profiles
  /\ profiles' = addTripRange(profiles, activeProfileId, startDateStr, endDateStr, seed)
  /\ storage' = SaveEffect(isLoaded, profiles', activeProfileId, storage)
  /\ UNCHANGED <<trips, activeProfileId, isLoaded, rangeMode, rangeStart>>

\* The profile actions keep the store before the call in ret.
AddProfile(name, newId) ==
  LET after == addProfile(profiles, activeProfileId, name, newId)
  IN  /\ op' = "addProfile"
      /\ arg1' = name
      /\ arg2' = NULL
      /\ ret' = [profiles |-> profiles, activeProfileId |-> activeProfileId]
      /\ profiles' = after.profiles
      /\ activeProfileId' = after.activeProfileId
      /\ storage' = SaveEffect(isLoaded, after.profiles, after.activeProfileId, storage)
      /\ UNCHANGED <<trips, isLoaded, rangeMode, rangeStart>>

RemoveProfile(id) ==
  LET after == removeProfile(profiles, activeProfileId, id)
  IN  /\ op' = "removeProfile"
      /\ arg1' = id
      /\ arg2' = NULL
      /\ ret' = [profiles |-> profiles, activeProfileId |-> activeProfileId]
      /\ profiles' = after.profiles
      /\ activeProfileId' = after.activeProfileId
      /\ storage' = SaveEffect(isLoaded, after.profiles, after.activeProfileId, storage)
      /\ UNCHANGED <<trips, isLoaded, rangeMode, rangeStart>>

\* The profile switcher calls setActiveProfileId with the id of a listed profile.
SetActiveProfileId(id) ==
  /\ \E k \in 1..Len(profiles) : profiles[k].id = id
  /\ op' = "setActiveProfileId"
  /\ arg1' = id
  /\ arg2' = NULL
  /\ ret' = [profiles |-> profiles, activeProfileId |-> activeProfileId]
  /\ activeProfileId' = id
  /\ storage' = SaveEffect(isLoaded, profiles, id, storage)
  /\ UNCHANGED <<trips, profiles, isLoaded, rangeMode, rangeStart>>

InitStore == InitWith({<<>>})

NextStore ==
  \/ \E d \in ToggleDates, seed \in UuidSeeds : ToggleDate(d, seed)
  \/ \E p \in RangePresses, seed \in UuidSeeds : AddTripRange(p[1], p[2], seed)

SpecStore == InitStore /\ [][NextStore]_vars

----------------------------------------------------------------------------
(* The list of profiles: adding, removing and selecting                    *)

InitProfiles == InitWith({<<>>})

\* The profile removed or selected is the active one, the first or the last.
NextProfiles ==
  \/ \E name \in ProfileNames, newId \in FreshUuids(profiles) : AddProfile(name, newId)
  \/ \E id \in {activeProfileId, profiles[1].id} : RemoveProfile(id)
  \/ \E id \in {profiles[1].id, profiles[Len(profiles)].id} : SetActiveProfileId(id)

SpecProfiles == InitProfiles /\ [][NextProfiles]_vars

----------------------------------------------------------------------------
(* Edits of the calendar while profiles are added, removed and selected    *)

InitEdits == InitWith({<<>>})

\* Profiles are added up to MaxProfilesEdit, and the last one is removed.
NextEdits ==
  \/ \E d \in EditDates, seed \in EditSeeds : ToggleDate(d, seed)
  \/ \E p \in EditPresses, seed \in EditSeeds : AddTripRange(p[1], p[2], seed)
  \/ \E name \in ProfileNames, newId \in FreshUuids(profiles) :
       Len(profiles) < MaxProfilesEdit /\ AddProfile(name, newId)
  \/ RemoveProfile(profiles[Len(profiles)].id)
  \/ \E k \in 1..Len(profiles) : SetActiveProfileId(profiles[k].id)

SpecEdits == InitEdits /\ [][NextEdits]_vars

----------------------------------------------------------------------------
(* useSchengenStore from the first render: load, save, edits               *)

InitStorage ==
  /\ trips = <<>>
  /\ op = "none"
  /\ arg1 = NULL
  /\ arg2 = NULL
  /\ ret = NULL
  /\ profiles = InitialProfiles
  /\ activeProfileId = "default"
  /\ isLoaded = FALSE
  /\ storage \in StoredItems
  /\ rangeMode = FALSE
  /\ rangeStart = NULL

\* The effects of the first render: the load effect reads the item and sets
\* profiles, activeProfileId and isLoaded, and the save effect runs with the
\* isLoaded of that render. ret keeps the item that was read.
Mount ==
  LET loaded == LoadEffect(storage, profiles, activeProfileId)
  IN  /\ op = "none"
      /\ ~isLoaded
      /\ op' = "load"
      /\ ret' = storage
      /\ profiles' = loaded.profiles
      /\ activeProfileId' = loaded.activeProfileId
      /\ isLoaded' = TRUE
      /\ storage' = SaveEffect(isLoaded, profiles, activeProfileId, storage)
      /\ UNCHANGED <<trips, arg1, arg2, rangeMode, rangeStart>>

\* The render that follows the load: isLoaded has changed, so the save
\* effect runs again.
SaveAfterLoad ==
  /\ op = "load"
  /\ op' = "save"
  /\ storage' = SaveEffect(isLoaded, profiles, activeProfileId, storage)
  /\ UNCHANGED <<trips, arg1, arg2, ret, profiles, activeProfileId, isLoaded,
                 rangeMode, rangeStart>>

\* The screens are used once the effects of the first two renders have run.
Started == isLoaded /\ op # "load"

NextStorage ==
  \/ Mount
  \/ SaveAfterLoad
  \/ \E d \in EditDates, seed \in EditSeeds : Started /\ ToggleDate(d, seed)
  \/ \E name \in ProfileNames, newId \in FreshUuids(profiles) :
       Started /\ Len(profiles) < MaxProfilesEdit /\ AddProfile(name, newId)
  \/ \E k \in 1..Len(profiles) : Started /\ SetActiveProfileId(profiles[k].id)

SpecStorage == InitStorage /\ [][NextStorage]_vars

----------------------------------------------------------------------------
(* DashboardScreen: date presses and the range mode                        *)

IsRangeModeNever(mode) == FALSE

\* if (rangeMode)
IsRangeMode(mode) == mode

\* handleDatePress(dateStr); seed is the draw of crypto.randomUUID in the
\* store's updater.
HandleDatePress(dateStr, seed) ==
  IF IsRangeMode(rangeMode)
  THEN IF rangeStart = NULL
       THEN /\ op' = "setRangeStart"
            /\ arg1' = dateStr
            /\ arg2' = NULL
            /\ ret' = profiles
            /\ rangeStart' = dateStr
            /\ UNCHANGED <<trips, profiles, activeProfileId, isLoaded, storage, rangeMode>>
       ELSE /\ op' = "addTripRange"
            /\ arg1' = rangeStart
            /\ arg2' = dateStr
            /\ ret' = profiles
            /\ profiles' = addTripRange(profiles, activeProfileId, rangeStart, dateStr, seed)
            /\ storage' = SaveEffect(isLoaded, profiles', activeProfileId, storage)
            /\ rangeStart' = NULL
            /\ rangeMode' = FALSE
            /\ UNCHANGED <<trips, activeProfileId, isLoaded>>
  ELSE ToggleDate(dateStr, seed)

ToggleRangeMode ==
  /\ op' = "toggleRangeMode"
  /\ arg1' = NULL
  /\ arg2' = NULL
  /\ ret' = profiles
  /\ rangeMode' = ~rangeMode
  /\ rangeStart' = NULL
  /\ UNCHANGED <<trips, profiles, activeProfileId, isLoaded, storage>>

InitRange == InitWith({<<>>})

NextRange ==
  \/ \E d \in EditDates, seed \in EditSeeds : HandleDatePress(d, seed)
  \/ ToggleRangeMode

SpecRange == InitRange /\ [][NextRange]_vars

----------------------------------------------------------------------------
(* Properties                                                              *)

\* The calendar days a trip list covers, as day numbers.
DaysOf(ts) ==
  UNION {parseISO(ts[k].entryDate)..parseISO(ts[k].exitDate) : k \in 1..Len(ts)}

\* The <<entryDate, exitDate>> pairs of a trip list, in order.
PairsOf(ts) == [k \in 1..Len(ts) |-> <<ts[k].entryDate, ts[k].exitDate>>]

\* No day belongs to two trips of the list.
PairwiseDisjoint(ts) ==
  \A a, b \in 1..Len(ts) :
    a # b => \/ parseISO(ts[a].exitDate) < parseISO(ts[b].entryDate)
             \/ parseISO(ts[b].exitDate) < parseISO(ts[a].entryDate)

\* Sorted by entry date, each trip with entry <= exit, and at least one
\* absent day between consecutive trips.
IsNormalized(ts) ==
  /\ \A k \in 1..Len(ts) : parseISO(ts[k].entryDate) <= parseISO(ts[k].exitDate)
  /\ \A k \in 1..(Len(ts) - 1) :
       parseISO(ts[k + 1].entryDate) - parseISO(ts[k].exitDate) >= 2

\* The smallest element of a non-empty set of integers.
MinOf(S) == CHOOSE x \in S : \A y \in S : x <= y

\* C1: the output of normalizeTrips is sorted ascending by entryDate, its
\* intervals are pairwise non-overlapping, and each interval starts at least
\* 2 calendar days after the previous one ends.
C1_OutputNormalized ==
  op = "normalizeTrips" =>
    /\ \A a, b \in 1..Len(ret) :
         a < b => /\ parseISO(ret[a].entryDate) <= parseISO(ret[b].entryDate)
                  /\ parseISO(ret[a].exitDate) < parseISO(ret[b].entryDate)
    /\ \A k \in 1..(Len(ret) - 1) :
         parseISO(ret[k + 1].entryDate) - parseISO(ret[k].exitDate) >= 2

\* An unsorted list of three trips is normalized to two trips that lie
\* exactly one absent day apart.
C1_Witness ==
  /\ op = "normalizeTrips"
  /\ Len(trips) = 3
  /\ parseISO(trips[1].entryDate) > parseISO(trips[2].entryDate)
  /\ Len(ret) = 2
  /\ parseISO(ret[2].entryDate) - parseISO(ret[1].exitDate) = 2

\* C2: normalizeTrips covers exactly the days of its input with the fewest
\* intervals: every output interval is a maximal run of covered days (so
\* overlapping, nested and adjacent trips are merged up to the latest exit,
\* and trips separated by an absent day stay apart).
C2_SameDaysMinimal ==
  op = "normalizeTrips" =>
    LET days == DaysOf(trips)
    IN  /\ DaysOf(ret) = days
        /\ Len(ret) = Cardinality({d \in days : (d - 1) \notin days})
        /\ \A k \in 1..Len(ret) :
             /\ parseISO(ret[k].entryDate) <= parseISO(ret[k].exitDate)
             /\ (parseISO(ret[k].entryDate) - 1) \notin days
             /\ (parseISO(ret[k].exitDate) + 1) \notin days

\* A trip nested strictly inside another one is merged into it, next to a
\* trip that is kept apart.
C2_Witness ==
  /\ op = "normalizeTrips"
  /\ Len(ret) = 2
  /\ \E a, b \in 1..Len(trips) :
       /\ parseISO(trips[a].entryDate) < parseISO(trips[b].entryDate)
       /\ parseISO(trips[b].exitDate) < parseISO(trips[a].exitDate)
       /\ ret[1].entryDate = trips[a].entryDate
       /\ ret[1].exitDate = trips[a].exitDate

\* C3: normalizeTrips is idempotent on the (entryDate, exitDate) intervals.
C3_Idempotent ==
  op = "normalizeTrips" => PairsOf(normalizeTrips(ret)) = PairsOf(ret)

\* A list that normalizeTrips changed, with two intervals left.
C3_Witness ==
  /\ op = "normalizeTrips"
  /\ Len(ret) = 2
  /\ PairsOf(ret) # PairsOf(trips)

\* C4 as stated: calculateUsedDaysWithinWindow is in [0, 180] for all trip
\* lists, overlapping ones included.
C4_Original ==
  op = "calculateUsedDaysWithinWindow" => ret \in 0..180

\* C4 as amended: calculateUsedDaysWithinWindow is in [0, 180] for every trip
\* list whose trips are pairwise disjoint.
C4_DisjointBounded ==
  (op = "calculateUsedDaysWithinWindow" /\ PairwiseDisjoint(trips)) => ret \in 0..180

\* Two disjoint trips that fill the whole window.
C4_Witness ==
  /\ op = "calculateUsedDaysWithinWindow"
  /\ PairwiseDisjoint(trips)
  /\ Len(trips) = 2
  /\ ret = 180

\* C5: for a normalized list, calculateUsedDaysWithinWindow is the number of
\* distinct presence days d with D - 179 <= d <= D.
C5_CountsWindowDays ==
  (op = "calculateUsedDaysWithinWindow" /\ IsNormalized(trips)) =>
    LET D == parseISO(arg1)
    IN  ret = Cardinality({d \in DaysOf(trips) : D - 179 <= d /\ d <= D})

\* A normalized list with a trip across the day D - 179 and a trip across D.
C5_Witness ==
  /\ op = "calculateUsedDaysWithinWindow"
  /\ IsNormalized(trips)
  /\ Len(trips) = 2
  /\ parseISO(trips[1].entryDate) = parseISO(arg1) - 180
  /\ parseISO(trips[1].exitDate) >= parseISO(arg1) - 179
  /\ parseISO(trips[2].entryDate) <= parseISO(arg1)
  /\ parseISO(trips[2].exitDate) > parseISO(arg1)

\* The days of the planned stay [arg1, arg2] whose usage, measured on the
\* normalized history plus the stay, is over 90.
DaysOverLimit ==
  LET combined == normalizeTrips(Append(trips,
                    [id |-> "temp", entryDate |-> arg1, exitDate |-> arg2]))
  IN  {d \in parseISO(arg1)..parseISO(arg2) :
         calculateUsedDaysWithinWindow(combined, formatISO(d)) > 90}

\* C6: canStayForPeriod allows the stay exactly when no day of [E, X] has
\* usage above 90; otherwise violationDate is the earliest such day.
C6_FirstViolation ==
  op = "canStayForPeriod" =>
    IF DaysOverLimit = {}
    THEN ret.isAllowed
    ELSE /\ ~ret.isAllowed
         /\ ret.violationDate = formatDisplay(MinOf(DaysOverLimit))

\* A stay rejected on a day strictly between its entry and its exit, with a
\* history that is not empty.
C6_Witness ==
  /\ op = "canStayForPeriod"
  /\ trips # <<>>
  /\ ~ret.isAllowed
  /\ \E d \in (parseISO(arg1) + 1)..(parseISO(arg2) - 1) :
       ret.violationDate = formatDisplay(d)

\* C7: an allowed stay reports as usedOnExit the usage on the exit day of the
\* normalized history plus the stay, and that is at most 90.
C7_UsedOnExit ==
  (op = "canStayForPeriod" /\ ret.isAllowed) =>
    /\ ret.usedOnExit =
         calculateUsedDaysWithinWindow(
           normalizeTrips(Append(trips,
             [id |-> "temp", entryDate |-> arg1, exitDate |-> arg2])), arg2)
    /\ ret.usedOnExit <= 90

\* An allowed stay that overlaps the history and ends with exactly 90 days used.
C7_Witness ==
  /\ op = "canStayForPeriod"
  /\ ret.isAllowed
  /\ ret.usedOnExit = 90
  /\ \E k \in 1..Len(trips) :
       /\ parseISO(trips[k].entryDate) <= parseISO(arg2)
       /\ parseISO(arg1) <= parseISO(trips[k].exitDate)

\* C8: with an empty history a stay of up to 90 days is allowed, and a longer
\* one is rejected with violationDate = E + 90.
C8_EmptyHistoryStay ==
  (op = "canStayForPeriod" /\ trips = <<>>) =>
    LET len == parseISO(arg2) - parseISO(arg1) + 1
    IN  /\ len <= 90 => (ret.isAllowed /\ ret.violationDate = NULL)
        /\ len > 90 => /\ ~ret.isAllowed
                       /\ ret.violationDate = formatDisplay(parseISO(arg1) + 90)

\* The 92-day stay from 2024-01-01 is rejected on 31/03/2024.
C8_Witness ==
  /\ op = "canStayForPeriod"
  /\ trips = <<>>
  /\ arg1 = <<2024, 1, 1>>
  /\ arg2 = <<2024, 4, 1>>
  /\ ~ret.isAllowed
  /\ ret.violationDate = <<31, 3, 2024>>

\* C9: with an empty history getMaxSafeStayFromDate returns maxDays = 90 and
\* untilDate = E + 89.
C9_EmptyHistoryMax ==
  (op = "getMaxSafeStayFromDate" /\ trips = <<>>) =>
    /\ ret.maxDays = 90
    /\ ret.untilDate = formatDisplay(parseISO(arg1) + 89)

\* From 2023-12-15 the 90 days end on 13/03/2024, across a leap day.
C9_Witness ==
  /\ op = "getMaxSafeStayFromDate"
  /\ trips = <<>>
  /\ arg1 = <<2023, 12, 15>>
  /\ ret = [maxDays |-> 90, untilDate |-> <<13, 3, 2024>>]

\* C10: maxDays = L is in 0..90, the stay of L days is allowed when L >= 1,
\* and the stay of L + 1 days is not allowed when L < 90.
C10_MaxStayBoundary ==
  op = "getMaxSafeStayFromDate" =>
    LET L == ret.maxDays
    IN  /\ L \in 0..90
        /\ L >= 1 => canStayForPeriod(trips, arg1, ExitAfter(arg1, L)).isAllowed
        /\ L < 90 => ~canStayForPeriod(trips, arg1, ExitAfter(arg1, L + 1)).isAllowed

\* A history that leaves room for some days but not for 90.
C10_Witness ==
  /\ op = "getMaxSafeStayFromDate"
  /\ trips # <<>>
  /\ ret.maxDays > 0
  /\ ret.maxDays < 90

\* The greatest element of a non-empty set of integers.
MaxOf(S) == CHOOSE x \in S : \A y \in S : x >= y

\* C11: for a fixed entry date feasibility is monotonic in the length of the
\* stay: a stay that is not allowed is not allowed with any later exit; and
\* getMaxSafeStayFromDate, which stops at the first failure, returns the
\* greatest allowed length of an exhaustive search over the lengths 1..90.
C11_MonotoneExhaustive ==
  /\ (op = "canStayForPeriod" /\ ~ret.isAllowed) =>
       LET len == parseISO(arg2) - parseISO(arg1) + 1
       IN  \A longer \in (len + 1)..MaxStayLen :
             ~canStayForPeriod(trips, arg1, ExitAfter(arg1, longer)).isAllowed
  /\ op = "getMaxSafeStayFromDate" =>
       ret.maxDays =
         MaxOf({0} \cup {L \in 1..90 :
                  canStayForPeriod(trips, arg1, ExitAfter(arg1, L)).isAllowed})

\* A stay of at most 61 days that a history rejects, with longer stays to try.
C11_Witness ==
  /\ op = "canStayForPeriod"
  /\ trips # <<>>
  /\ ~ret.isAllowed
  /\ parseISO(arg2) - parseISO(arg1) + 1 <= 61

\* C12: collapsing the per-day presence set of a trip list with
\* updateTripsFromSet yields the same sequence of (entryDate, exitDate)
\* intervals as normalizeTrips of the list.
C12_CollapseExpandIsNormalize ==
  op = "updateTripsFromSet" => PairsOf(ret) = PairsOf(normalizeTrips(trips))

\* Three trips given out of order, two of them adjacent across a month end,
\* collapse into two intervals.
C12_Witness ==
  /\ op = "updateTripsFromSet"
  /\ Len(trips) = 3
  /\ parseISO(trips[1].entryDate) > parseISO(trips[3].entryDate)
  /\ \E a, b \in 1..3 : /\ parseISO(trips[b].entryDate) = parseISO(trips[a].exitDate) + 1
                         /\ trips[b].entryDate[2] # trips[a].exitDate[2]
  /\ Len(ret) = 2

\* The trips of the profile of ps that the calendar shows and edits.
ActiveTripsOf(ps) ==
  ps[CHOOSE k \in 1..Len(ps) : ps[k].id = activeProfileId].trips

\* C13: toggleDate(d) adds d to the presence days of the active profile if
\* it was absent and removes it if it was present, changes no other day and
\* leaves the trips as maximal runs of days; toggling d once more restores
\* the list of (entryDate, exitDate) intervals.
C13_ToggleFlipsOneDay ==
  op = "toggleDate" =>
    LET before == DaysOf(ActiveTripsOf(ret))
        after  == DaysOf(ActiveTripsOf(profiles))
        d      == parseISO(arg1)
    IN  /\ after = (IF d \in before THEN before \ {d} ELSE before \cup {d})
        /\ IsNormalized(ActiveTripsOf(profiles))
        /\ \A seed \in UuidSeeds :
             PairsOf(ActiveTripsOf(toggleDate(profiles, activeProfileId, arg1, seed)))
               = PairsOf(ActiveTripsOf(ret))

\* Toggling 2024-05-10 takes the first day from the trip
\* 2024-05-10..2024-05-11 and leaves the trip 2024-05-11..2024-05-11.
C13_Witness ==
  /\ op = "toggleDate"
  /\ arg1 = <<2024, 5, 10>>
  /\ PairsOf(ActiveTripsOf(ret)) = << <<(<<2024, 5, 10>>), (<<2024, 5, 11>>)>> >>
  /\ PairsOf(ActiveTripsOf(profiles)) = << <<(<<2024, 5, 11>>), (<<2024, 5, 11>>)>> >>

\* C14: addTripRange(start, end) makes the presence days of the active
\* profile the previous ones together with every day from the earlier to the
\* later of the two dates, removes no day, and gives the same intervals with
\* the two dates exchanged.
C14_AddRangeUnion ==
  op = "addTripRange" =>
    LET before == DaysOf(ActiveTripsOf(ret))
        after  == DaysOf(ActiveTripsOf(profiles))
        d1     == parseISO(arg1)
        d2     == parseISO(arg2)
        lo     == IF d1 <= d2 THEN d1 ELSE d2
        hi     == IF d1 <= d2 THEN d2 ELSE d1
    IN  /\ after = before \cup (lo..hi)
        /\ before \subseteq after
        /\ IsNormalized(ActiveTripsOf(profiles))
        /\ \A seed \in UuidSeeds :
             PairsOf(ActiveTripsOf(addTripRange(ret, activeProfileId, arg2, arg1, seed)))
               = PairsOf(ActiveTripsOf(profiles))

\* A range pressed from its later to its earlier day joins two trips into one.
C14_Witness ==
  /\ op = "addTripRange"
  /\ parseISO(arg1) > parseISO(arg2)
  /\ Len(ActiveTripsOf(ret)) = 2
  /\ Len(ActiveTripsOf(profiles)) = 1

\* C15: the violation list of WindowBreakdown for (trips, D) holds exactly
\* the days d of [D - 179, D] on which the traveller is present and
\* calculateUsedDaysWithinWindow(trips, d) > 90, in ascending order; no day
\* of absence is listed.
C15_ViolationDays ==
  op = "WindowBreakdown" =>
    LET D      == parseISO(arg1)
        listed == ret.violationDays
    IN  /\ {parseISO(listed[i]) : i \in 1..Len(listed)} =
             {d \in (D - 179)..D :
                /\ d \in DaysOf(trips)
                /\ calculateUsedDaysWithinWindow(trips, formatISO(d)) > 90}
        /\ \A i \in 1..(Len(listed) - 1) : parseISO(listed[i]) < parseISO(listed[i + 1])
        /\ \A i \in 1..Len(listed) : parseISO(listed[i]) \in DaysOf(trips)

\* Two trips with days of absence between them: days of the second trip are
\* listed, and a present day whose usage is exactly 90 is not.
C15_Witness ==
  /\ op = "WindowBreakdown"
  /\ Len(trips) = 2
  /\ PairwiseDisjoint(trips)
  /\ Len(ret.violationDays) > 0
  /\ \E d \in (parseISO(arg1) - 179)..parseISO(arg1) :
       /\ d \in DaysOf(trips)
       /\ calculateUsedDaysWithinWindow(trips, formatISO(d)) = 90
  /\ \E d \in (parseISO(arg1) - 179)..parseISO(arg1) : d \notin DaysOf(trips)

\* The sum of the counts of the entries k..Len(stats) of a monthly histogram.
RECURSIVE SumCounts(_, _)
SumCounts(stats, k) ==
  IF k > Len(stats) THEN 0 ELSE stats[k].count + SumCounts(stats, k + 1)

\* The <<year, month>> of a day.
MonthOf(d) == <<FieldsOf(d)[1], FieldsOf(d)[2]>>

\* C16: the monthly histogram of WindowBreakdown has exactly one entry for
\* each calendar month that overlaps the window [D - 179, D], in ascending
\* order; each count is the number of presence days in that month and the
\* window, so the counts sum to the number of distinct presence days of the
\* window, which for normalized trips is calculateUsedDaysWithinWindow(trips, D).
C16_MonthlyHistogram ==
  op = "WindowBreakdown" =>
    LET D      == parseISO(arg1)
        window == (D - 179)..D
        stats  == ret.monthStats
    IN  /\ {MonthOf(stats[k].month) : k \in 1..Len(stats)} = {MonthOf(d) : d \in window}
        /\ \A k \in 1..(Len(stats) - 1) : stats[k].month < stats[k + 1].month
        /\ \A k \in 1..(Len(stats) - 1) : MonthOf(stats[k].month) # MonthOf(stats[k + 1].month)
        /\ \A k \in 1..Len(stats) :
             stats[k].count =
               Cardinality({d \in window \cap DaysOf(trips) :
                              MonthOf(d) = MonthOf(stats[k].month)})
        /\ SumCounts(stats, 1) = Cardinality(window \cap DaysOf(trips))
        /\ IsNormalized(trips) =>
             SumCounts(stats, 1) = calculateUsedDaysWithinWindow(trips, arg1)

\* A window that starts on the second day of a month, with a normalized
\* history of two trips of which one begins before the window and ends in it.
C16_Witness ==
  /\ op = "WindowBreakdown"
  /\ IsNormalized(trips)
  /\ Len(trips) = 2
  /\ ret.monthStats[1].month < parseISO(arg1) - 179
  /\ ret.monthStats[1].count > 0
  /\ \E k \in 1..Len(trips) :
       /\ parseISO(trips[k].entryDate) < parseISO(arg1) - 179
       /\ parseISO(trips[k].exitDate) >= parseISO(arg1) - 179

\* Some trip of the list has its exit before its entry.
HasInvalidRange(ts) ==
  \E k \in 1..Len(ts) : parseISO(ts[k].exitDate) < parseISO(ts[k].entryDate)

\* C17: a trip or a candidate range with exitDate before entryDate, passed to
\* normalizeTrips, canStayForPeriod or calculateUsedDaysWithinWindow, is
\* surfaced as an InvalidRangeError instead of an ordinary result.
C17_InvalidRangeError ==
  (/\ op \in {"normalizeTrips", "canStayForPeriod", "calculateUsedDaysWithinWindow"}
   /\ \/ HasInvalidRange(trips)
      \/ op = "canStayForPeriod" /\ parseISO(arg2) < parseISO(arg1))
  => ret.thrown = "InvalidRangeError"

SameUpToIds(a, b) == PairsOf(a) = PairsOf(b)

UsageWithStay(ts, e, x, d) ==
  calculateUsedDaysWithinWindow(
    normalizeTrips(Append(ts, [id |-> "temp", entryDate |-> e, exitDate |-> x])),
    formatISO(d))

\* Some day before the exit of the stay [e, x] has usage over 90 while the
\* exit day has at most 90.
InteriorBreachOnly(ts, e, x) ==
  /\ UsageWithStay(ts, e, x, parseISO(x)) <= 90
  /\ \E d \in parseISO(e)..(parseISO(x) - 1) : UsageWithStay(ts, e, x, d) > 90

\* The histories that the history of a stay is drawn from.
StayHistories == {MkTrips(p) : p \in ListsUpTo(StayIntervals, MaxTripsStay)}

\* C19 as stated: among the histories that the one in hand is drawn from
\* there are a history and a candidate stay [E, X] for which the usage on
\* some day d with E <= d < X is over 90 while the usage on the exit day X is
\* at most 90.
C19_Original ==
  /\ trips \in StayHistories
  /\ \E h \in StayHistories, e \in EntryDates, len \in StayLengths :
       InteriorBreachOnly(h, e, ExitAfter(e, len))

\* C19 as amended: over the days of a candidate stay the usage never
\* decreases from one day to the next, so a day over 90 inside the stay puts
\* the exit day over 90 too, and the stay is allowed exactly when the usage
\* on its exit day is at most 90.
C19_ExitDayDecides ==
  op = "canStayForPeriod" =>
    /\ \A d \in parseISO(arg1)..(parseISO(arg2) - 1) :
         UsageWithStay(trips, arg1, arg2, d) <= UsageWithStay(trips, arg1, arg2, d + 1)
    /\ ~InteriorBreachOnly(trips, arg1, arg2)
    /\ ret.isAllowed <=> UsageWithStay(trips, arg1, arg2, parseISO(arg2)) <= 90

\* A stay rejected on a day before its exit, during which days of the
\* history leave the window: the usage stands still from one day to the next.
C19_Witness ==
  /\ op = "canStayForPeriod"
  /\ ~ret.isAllowed
  /\ ret.violationDate # formatDisplay(parseISO(arg2))
  /\ \E d \in parseISO(arg1)..(parseISO(arg2) - 1) :
       /\ UsageWithStay(trips, arg1, arg2, d) = UsageWithStay(trips, arg1, arg2, d + 1)
       /\ UsageWithStay(trips, arg1, arg2, d) > 1

\* C20: for the same presence history and entry date getMaxContinuousStay
\* returns the maxDays of getMaxSafeStayFromDate, the greatest length L <= 90
\* of a stay from the entry date that keeps the 180-day usage of every day,
\* the days of the stay counted, at or below 90.
C20_SecondAgrees ==
  op = "getMaxContinuousStay" =>
    /\ ret = getMaxSafeStayFromDate(trips, arg1).maxDays
    /\ ret = MaxOf({0} \cup {L \in 1..90 :
                      \A d \in parseISO(arg1)..(parseISO(arg1) + L - 1) :
                        UsageWithStay(trips, arg1, ExitAfter(arg1, L), d) <= 90})

\* C27: a stay that canStayForPeriod rejects reports as usedOnExit the usage
\* measured on the violation day, which is over 90, and not the usage on
\* the planned exit day; violationDate is non-null exactly when the stay is
\* rejected.
C27_UsedOnViolationDay ==
  op = "canStayForPeriod" =>
    /\ (ret.violationDate # NULL) <=> ~ret.isAllowed
    /\ ~ret.isAllowed =>
         /\ ret.usedOnExit > 90
         /\ \E d \in parseISO(arg1)..parseISO(arg2) :
              /\ ret.violationDate = formatDisplay(d)
              /\ ret.usedOnExit = UsageWithStay(trips, arg1, arg2, d)

\* A stay rejected with a history, on a day whose usage differs from the
\* usage on the planned exit day.
C27_Witness ==
  /\ op = "canStayForPeriod"
  /\ trips # <<>>
  /\ ~ret.isAllowed
  /\ ret.usedOnExit # UsageWithStay(trips, arg1, arg2, parseISO(arg2))

\* C28: getMaxSafeStayFromDate returns untilDate = entry + maxDays - 1 in
\* every case, which for maxDays = 0 is the day before the entry date.
C28_UntilDate ==
  op = "getMaxSafeStayFromDate" =>
    /\ ret.untilDate = formatDisplay(parseISO(arg1) + ret.maxDays - 1)
    /\ ret.maxDays = 0 => ret.untilDate = formatDisplay(parseISO(arg1) - 1)

\* After 90 days up to 2024-06-30 no day can be added from 2024-07-01, and
\* untilDate is 30/06/2024.
C28_Witness ==
  /\ op = "getMaxSafeStayFromDate"
  /\ arg1 = <<2024, 7, 1>>
  /\ ret.maxDays = 0
  /\ ret.untilDate = <<30, 6, 2024>>

\* C29: for a normalized trip list and a reference date D the maxDays of
\* getMaxSafeStayFromDate(trips, D + 1) is at least the remaining days
\* max(0, 90 - calculateUsedDaysWithinWindow(trips, D)) that the dashboard
\* shows, also when the history has trips after D.
C29_DashboardConsistent ==
  (op = "DashboardScreen" /\ IsNormalized(trips)) =>
    /\ ret.usedDays = calculateUsedDaysWithinWindow(trips, arg1)
    /\ ret.maxStay.maxDays >= ret.remaining
    /\ ret.remaining >= 90 - ret.usedDays
    /\ ret.remaining >= 0

\* Some days remain, the longest stay is exactly as long, and the history has
\* a trip after the reference date.
C29_Witness ==
  /\ op = "DashboardScreen"
  /\ IsNormalized(trips)
  /\ ret.remaining > 0
  /\ ret.remaining < 90
  /\ ret.maxStay.maxDays = ret.remaining
  /\ \E k \in 1..Len(trips) : parseISO(trips[k].entryDate) > parseISO(arg1)

\* C30: for a normalized trip list and a reference date D with
\* calculateUsedDaysWithinWindow(trips, D) > 90 the violation list of
\* WindowBreakdown is not empty, also when the traveller is absent on D.
C30_ViolationsListed ==
  (/\ op = "WindowBreakdown"
   /\ IsNormalized(trips)
   /\ calculateUsedDaysWithinWindow(trips, arg1) > 90)
  => Len(ret.violationDays) > 0

\* Usage over 90 on a reference date on which the traveller is absent.
C30_Witness ==
  /\ op = "WindowBreakdown"
  /\ IsNormalized(trips)
  /\ calculateUsedDaysWithinWindow(trips, arg1) > 90
  /\ parseISO(arg1) \notin DaysOf(trips)
  /\ Len(ret.violationDays) > 0

\* The ids of the profiles of a list.
IdsOf(ps) == {ps[k].id : k \in 1..Len(ps)}

\* The profiles of ps other than the one with the given id, in their order.
ProfilesOtherThan(ps, id) ==
  LET kept(p) == p.id # id
  IN  SelectSeq(ps, kept)

\* C23: activeProfileId is always the id of a profile of the list; when the
\* active profile is removed, the first of the remaining profiles is active
\* afterwards.
C23_ActiveIsListed ==
  /\ activeProfileId \in IdsOf(profiles)
  /\ (op = "removeProfile" /\ arg1 = ret.activeProfileId /\ Len(ret.profiles) > 1) =>
       /\ profiles = ProfilesOtherThan(ret.profiles, arg1)
       /\ activeProfileId = ProfilesOtherThan(ret.profiles, arg1)[1].id

\* The active profile, last of three, is removed: the first one is active.
C23_Witness ==
  /\ op = "removeProfile"
  /\ Len(ret.profiles) = 3
  /\ arg1 = ret.activeProfileId
  /\ arg1 = ret.profiles[3].id
  /\ Len(profiles) = 2
  /\ activeProfileId = ret.profiles[1].id

\* C24: the list holds between 1 and 20 profiles; addProfile on a list of 20
\* adds no profile and leaves the active profile, removeProfile on a list of
\* one profile removes nothing.
C24_ProfileCount ==
  /\ Len(profiles) \in 1..20
  /\ (op = "addProfile" /\ Len(ret.profiles) = 20) =>
       /\ profiles = ret.profiles
       /\ activeProfileId = ret.activeProfileId
  /\ (op = "removeProfile" /\ Len(ret.profiles) = 1) =>
       /\ profiles = ret.profiles
       /\ activeProfileId = ret.activeProfileId

\* addProfile is called on a list of 20 profiles.
C24_Witness ==
  /\ op = "addProfile"
  /\ Len(ret.profiles) = 20
  /\ Len(profiles) = 20

\* C21: from the initial store, whatever days are toggled, ranges added and
\* profiles added, removed and selected, the trips of every profile have
\* entryDate <= exitDate, are sorted ascending and neither overlap nor are
\* adjacent; so are the trips of the active profile that the dashboard and
\* the window breakdown pass to calculateUsedDaysWithinWindow.
C21_StoredTripsNormalized ==
  /\ \A k \in 1..Len(profiles) :
       LET ts == profiles[k].trips
       IN  /\ IsNormalized(ts)
           /\ \A a, b \in 1..Len(ts) :
                a < b => parseISO(ts[a].exitDate) < parseISO(ts[b].entryDate)
  /\ IsNormalized(activeProfile.trips)

\* Two profiles with trips; the profile that is not active keeps the two
\* trips 10..11 May and 13 May.
C21_Witness ==
  /\ Len(profiles) = 2
  /\ activeProfileId = profiles[1].id
  /\ Len(profiles[1].trips) = 1
  /\ PairsOf(profiles[2].trips) =
       << <<(<<2024, 5, 10>>), (<<2024, 5, 11>>)>>, <<(<<2024, 5, 13>>), (<<2024, 5, 13>>)>> >>

\* C22: a step of toggleDate or addTripRange leaves the trips of every
\* profile other than the active one, the id and the name of every profile,
\* the number of profiles and activeProfileId as they were.
C22_EditFrame ==
  [][op' \in {"toggleDate", "addTripRange"} =>
       /\ activeProfileId' = activeProfileId
       /\ Len(profiles') = Len(profiles)
       /\ \A k \in 1..Len(profiles) :
            /\ profiles'[k].id = profiles[k].id
            /\ profiles'[k].name = profiles[k].name
            /\ profiles[k].id # activeProfileId => profiles'[k].trips = profiles[k].trips]_vars

\* A day was toggled in the second profile while the first one has a trip.
C22_Witness ==
  /\ op = "toggleDate"
  /\ Len(profiles) = 2
  /\ activeProfileId = profiles[2].id
  /\ profiles[1].trips # <<>>
  /\ profiles[2].trips # ret[2].trips
  /\ profiles[1].trips = ret[1].trips

\* C25 as stated: the first write after start-up leaves an item that was
\* stored before as it is, since it carries what was loaded from it.
C25_Original ==
  (op = "save" /\ ret # NoItem) => storage = ret

\* C25: the stored item changes only in steps that start with isLoaded
\* true; the first write after start-up carries the profiles and
\* activeProfileId of the store, which are those of the stored item when it
\* is a saved state, and the default state (one empty profile 'Me') when
\* nothing is stored or the stored text does not parse.
C25_SaveAfterLoad ==
  [][/\ storage' # storage => isLoaded
     /\ op' = "save" =>
          /\ storage' = JSONstringify([profiles |-> profiles', activeProfileId |-> activeProfileId'])
          /\ ret'.kind = "json" =>
               /\ storage' = ret'
               /\ profiles' = ret'.value.profiles
               /\ activeProfileId' = ret'.value.activeProfileId
          /\ ret'.kind # "json" =>
               storage' = JSONstringify([profiles |-> InitialProfiles, activeProfileId |-> "default"])]_vars

\* The first write after a state with two profiles was loaded.
C25_Witness ==
  /\ op = "save"
  /\ ret.kind = "json"
  /\ Len(ret.value.profiles) = 2
  /\ Len(profiles) = 2
  /\ activeProfileId = "1"
  /\ storage = ret

\* C26: rangeStart is set only while rangeMode is on; a press while
\* rangeMode is on never calls toggleDate; addTripRange is called only by
\* the second press after range mode was entered (the store was last
\* touched by the first press, which followed the toggle), its arguments
\* are the date of the first press and the date of the second one, and
\* after it rangeMode is off and rangeStart is null.
C26_RangeSelection ==
  [][/\ rangeStart # NULL => (rangeMode /\ op = "setRangeStart" /\ arg1 = rangeStart)
     /\ (rangeMode /\ rangeStart = NULL) => op = "toggleRangeMode"
     /\ op' = "setRangeStart" => (rangeMode /\ op = "toggleRangeMode")
     /\ rangeMode => op' # "toggleDate"
     /\ op' = "addTripRange" =>
          /\ rangeMode
          /\ op = "setRangeStart"
          /\ arg1' = arg1
          /\ arg2' \in EditDates
          /\ \E seed \in EditSeeds :
               profiles' = addTripRange(profiles, activeProfileId, arg1, arg2', seed)
          /\ ~rangeMode'
          /\ rangeStart' = NULL]_vars

\* The range 2024-05-13 to 2024-05-10 was added by two presses, the later
\* day first.
C26_Witness ==
  /\ op = "addTripRange"
  /\ arg1 = <<2024, 5, 13>>
  /\ arg2 = <<2024, 5, 10>>
  /\ ret # profiles
  /\ ~rangeMode
  /\ rangeStart = NULL
  /\ PairsOf(activeProfile.trips) = << <<(<<2024, 5, 10>>), (<<2024, 5, 13>>)>> >>

====
